---- MODULE Spec2Model ----
(***************************************************************************)
(* Build-time pipeline of the blog: the content collection schema          *)
(* (content.config.ts), the static path generator and page of              *)
(* pages/blog/[id].astro, the layout layouts/BlogPostLayout.astro and the  *)
(* listing of pages/blog/index.astro.                                      *)
(*                                                                         *)
(* JavaScript values are tagged records, so that truthiness (!!v, a || b)  *)
(* and template-literal conversion are computed as the language computes   *)
(* them.  A string is a sequence of tokens; the token "/" is the path      *)
(* separator that split("/") cuts at.                                      *)
(***************************************************************************)
EXTENDS Integers, Sequences, FiniteSets, TLC

\* ----------------------------------------------------------------- bounds
\* published dates are the instants 0..MaxDate (0 is the epoch itself)
MaxDate == 2

\* -------------------------------------------------------- JavaScript values
Undefined == [t |-> "undefined"]
Str(s) == [t |-> "string", v |-> s]
Num(n) == [t |-> "number", n |-> n]
DateV(ms) == [t |-> "date", ms |-> ms]
Arr(items) == [t |-> "array", items |-> items]

\* ToBoolean: undefined, "" and 0 are falsy; every object (a Date, an
\* array) is truthy whatever it holds
Truthy(x) ==
  CASE x.t = "undefined" -> FALSE
    [] x.t = "string" -> x.v # <<>>
    [] x.t = "number" -> x.n # 0
    [] OTHER -> TRUE

\* a || b
Or(a, b) == IF Truthy(a) THEN a ELSE b

\* valueOf() of a Date or of a number
ValueOf(x) == IF x.t = "date" THEN x.ms ELSE x.n

\* `${x}` : the tokens a template literal interpolates for x
ToStringTokens(x) ==
  CASE x.t = "string" -> x.v
    [] x.t = "undefined" -> <<"undefined">>
    [] OTHER -> <<"[object]">>

\* s.split("/") on a token sequence: the segments between separators
RECURSIVE SplitFrom(_, _, _)
SplitFrom(s, i, cur) ==
  IF i > Len(s) THEN <<cur>>
  ELSE IF s[i] = "/" THEN <<cur>> \o SplitFrom(s, i + 1, <<>>)
  ELSE SplitFrom(s, i + 1, Append(cur, s[i]))

Split(s) == SplitFrom(s, 1, <<>>)

\* array.pop(): the last element, undefined for an empty array
Pop(a) == IF Len(a) = 0 THEN Undefined ELSE Str(a[Len(a)])

\* post.id.split("/").pop() || ""
RoutedId(id) == Or(Pop(Split(id.v)), Str(<<>>))

\* ------------------------------------------------------------------ schema
\* (variant: z.string().min(1))
IsNonEmptyString(x) == x.t = "string" /\ x.v # <<>>

\* z.string()
IsString(x) == x.t = "string"
\* z.date()
IsDate(x) == x.t = "date"
\* z.array(z.string())
IsStringArray(x) ==
  /\ x.t = "array"
  /\ \A i \in 1..Len(x.items) : IsString(x.items[i])
\* (variant: the field is declared without .optional())
IsNeverOptional(x) == FALSE

\* .optional()
IsOptional(x) == x.t = "undefined"

\* the fields of a front-matter record that violate the blog schema
SchemaIssues(fm) ==
     (IF IsString(fm.title) THEN {} ELSE {"title"})
  \cup (IF IsOptional(fm.published) \/ IsDate(fm.published) THEN {} ELSE {"published"})
  \cup (IF IsString(fm.description) THEN {} ELSE {"description"})
  \cup (IF IsString(fm.author) THEN {} ELSE {"author"})
  \cup (IF IsStringArray(fm.tags) THEN {} ELSE {"tags"})
  \cup (IF IsOptional(fm.ogImage) \/ IsString(fm.ogImage) THEN {} ELSE {"ogImage"})

SchemaAccepts(fm) == SchemaIssues(fm) = {}

\* ------------------------------------------------------------------ inputs
\* ids the glob loader derives from the relative paths of **/*.md files; the
\* third file lives in a subdirectory
Paths == {Str(<<"a">>), Str(<<"b">>), Str(<<"d", "/", "a">>)}

PublishedValues == {Undefined} \cup {DateV(d) : d \in 0..MaxDate}

FrontMatter(title, published, description, author, tags, ogImage) ==
  [title |-> title, published |-> published, description |-> description,
   author |-> author, tags |-> tags, ogImage |-> ogImage]

\* front-matter blocks the files of the content root may carry
FrontMatters ==
       {FrontMatter(Str(<<"T">>), p, Str(<<"D">>), Str(<<"A">>),
                    Arr(<<Str(<<"x">>)>>), og) :
          p \in PublishedValues, og \in {Str(<<"custom.png">>), Str(<<>>)}}
  \cup {FrontMatter(Str(<<"U">>), p, Str(<<"E">>), Str(<<"Nick Cosmo">>),
                    Arr(<<>>), Undefined) : p \in PublishedValues}
  \cup {FrontMatter(Undefined, DateV(0), Str(<<"D">>), Str(<<"A">>),
                    Arr(<<>>), Undefined)}

\* the markdown body below the front-matter block of the file with this id
BodyOf(id) == <<"md">> \o id.v

File(id, fm) == [id |-> id, data |-> fm, body |-> BodyOf(id)]

\* a content root: any of the files, no two with the same path
ContentRoots ==
  UNION {{{File(id, a[id]) : id \in P} : a \in [P -> FrontMatters]} :
           P \in SUBSET Paths}

\* every order in which the loader may enumerate a set of files
Orderings(fs) ==
  {s \in [1..Cardinality(fs) -> fs] : \A i, j \in 1..Cardinality(fs) : s[i] = s[j] => i = j}

NotYet == [t |-> "none"]
Some(v) == [t |-> "some", value |-> v]

\* ------------------------------------------------------------------- state
VARIABLES
  files,        \* the markdown files under ./src/blog
  pc,           \* position of the build
  blog,         \* what getCollection("blog") resolves to
  slots,        \* the promises Promise.all waits for, one per mapped post
  builtParams,  \* what getStaticPaths returned
  pages,        \* the document rendered for each returned unit
  index,        \* the listing of /blog
  record,       \* a front-matter block handed to the schema on its own
  verdict,      \* what the schema answered for record
  response,     \* the answer to the last request for /blog/<id>
  previous      \* the output of the build that ran before this one

vars == <<files, pc, blog, slots, builtParams, pages, index, record, verdict,
          response, previous>>

\* ------------------------------------------------- pages/blog/[id].astro
\* (variant: the filter tests the instant, !!post.data.published?.valueOf())
RECURSIVE FilterByInstant(_)
FilterByInstant(posts) ==
  IF posts = <<>> THEN <<>>
  ELSE (IF Truthy(Head(posts).data.published)
           /\ ValueOf(Head(posts).data.published) # 0
        THEN <<Head(posts)>> ELSE <<>>)
       \o FilterByInstant(Tail(posts))

\* (variant: the filter is left out)
FilterNothing(posts) == posts

\* blog.filter((post) => !!post.data.published)
RECURSIVE FilterPublished(_)
FilterPublished(posts) ==
  IF posts = <<>> THEN <<>>
  ELSE (IF Truthy(Head(posts).data.published) THEN <<Head(posts)>> ELSE <<>>)
       \o FilterPublished(Tail(posts))

\* the rendered-content handle render(post) resolves to
Render(post) == [component |-> <<"html">> \o post.body]

\* the object the mapped async function returns once render(post) resolved
BuildUnit(post, id, Content) ==
  [params |-> [id |-> id],
   props |-> [id |-> post.id,
              title |-> post.data.title,
              published |-> post.data.published,
              ogImage |-> post.data.ogImage,
              Content |-> Content]]

\* a property read off Astro.props: undefined when the unit does not carry it
Prop(props, name) == IF name \in DOMAIN props THEN props[name] ELSE Undefined

\* the props the page hands to <BlogPostLayout>, and the slot it fills
PageProps(props) ==
  [title |-> Prop(props, "title"),
   id |-> Prop(props, "id"),
   published |-> Prop(props, "published"),
   ogImage |-> Prop(props, "ogImage"),
   author |-> Prop(props, "author"),
   description |-> Prop(props, "description"),
   tags |-> Prop(props, "tags")]

\* ------------------------------------------------ layouts/BlogPostLayout
\* new Date(published).toLocaleDateString(), in the locale of the build host
LocaleDate(published) ==
  IF published.t = "date" THEN <<"date", published.ms>> ELSE <<"Invalid Date">>

\* the value of an attribute written content={x}: absent for undefined
Attr(x) == IF x.t = "undefined" THEN Undefined ELSE Str(ToStringTokens(x))

\* (variant: the og:image path is interpolated without its fallback)
BlogPostLayoutNoFallback(props, slot) ==
  [author |-> Str(<<"Nick Cosmo">>),
   title |-> Attr(props.title),
   ogTitle |-> Attr(props.title),
   ogUrl |-> Str(<<"https://www.nickcosmo.com/blog/">> \o ToStringTokens(props.id)),
   ogDescription |-> Attr(props.description),
   ogImage |-> Str(<<"https://www.nickcosmo.com/">> \o ToStringTokens(props.ogImage)),
   h1 |-> Attr(props.title),
   time |-> LocaleDate(props.published),
   body |-> slot]

\* the document the layout renders for these props around this slot
BlogPostLayout(props, slot) ==
  [author |-> Str(<<"Nick Cosmo">>),
   title |-> Attr(props.title),
   ogTitle |-> Attr(props.title),
   ogUrl |-> Str(<<"https://www.nickcosmo.com/blog/">> \o ToStringTokens(props.id)),
   ogDescription |-> Attr(props.description),
   ogImage |-> Str(<<"https://www.nickcosmo.com/">>
                   \o ToStringTokens(Or(props.ogImage, Str(<<"og-image.png">>)))),
   h1 |-> Attr(props.title),
   time |-> LocaleDate(props.published),
   body |-> slot]

\* the document Astro writes for one unit of getStaticPaths
RenderUnit(unit) ==
  [route |-> unit.params.id,
   doc |-> BlogPostLayout(PageProps(unit.props), Prop(unit.props, "Content"))]

\* ------------------------------------------------ pages/blog/index.astro
\* (variant: the operands of the subtraction are swapped)
CompareAscending(a, b) ==
  ValueOf(Or(a.data.published, Num(0))) - ValueOf(Or(b.data.published, Num(0)))

\* (a, b) => (b.data.published || 0).valueOf() - (a.data.published || 0).valueOf()
CompareFn(a, b) ==
  ValueOf(Or(b.data.published, Num(0))) - ValueOf(Or(a.data.published, Num(0)))

\* Array.prototype.sort is stable: x goes behind every element that does not
\* compare greater than it
RECURSIVE InsertSorted(_, _)
InsertSorted(sorted, x) ==
  IF sorted = <<>> THEN <<x>>
  ELSE IF CompareFn(Head(sorted), x) <= 0
       THEN <<Head(sorted)>> \o InsertSorted(Tail(sorted), x)
       ELSE <<x>> \o sorted

RECURSIVE SortPosts(_)
SortPosts(posts) ==
  IF posts = <<>> THEN <<>>
  ELSE InsertSorted(SortPosts(SubSeq(posts, 1, Len(posts) - 1)), posts[Len(posts)])

\* blog.filter(...).sort(...)
IndexPosts(posts) == SortPosts(FilterPublished(posts))

\* (variant: the link is built from the whole id)
PostLinkWholeId(post) ==
  [href |-> <<"/blog/">> \o ToStringTokens(post.id),
   label |-> post.data.title]

\* <li class="post"><a href={`/blog/${...}`}>{post.data.title}</a></li>
PostLink(post) ==
  [href |-> <<"/blog/">> \o ToStringTokens(RoutedId(post.id)),
   label |-> post.data.title]

IndexListing(posts) == [i \in 1..Len(IndexPosts(posts)) |-> PostLink(IndexPosts(posts)[i])]

\* ------------------------------------------------------------ the build
Init ==
  /\ files \in ContentRoots
  /\ pc = "start"
  /\ blog = NotYet
  /\ slots = <<>>
  /\ builtParams = NotYet
  /\ pages = <<>>
  /\ index = NotYet
  /\ record = NotYet
  /\ verdict = NotYet
  /\ response = NotYet
  /\ previous = NotYet

\* (variant: a file that violates the schema is skipped)
LoadSkippingInvalid ==
  /\ pc = "start"
  /\ \E order \in Orderings({f \in files : SchemaAccepts(f.data)}) :
       blog' = Some(order)
  /\ pc' = "loaded"
  /\ UNCHANGED <<files, slots, builtParams, pages, index, record, verdict,
                 response, previous>>

\* the content layer parses every file against the schema; getCollection
\* resolves to the entries in the order the loader enumerated them
Load ==
  /\ pc = "start"
  /\ \A f \in files : SchemaAccepts(f.data)
  /\ \E order \in Orderings(files) : blog' = Some(order)
  /\ pc' = "loaded"
  /\ UNCHANGED <<files, slots, builtParams, pages, index, record, verdict,
               response, previous>>

\* a file whose front-matter violates the schema fails the build
LoadFail ==
  /\ pc = "start"
  /\ \E f \in files : ~SchemaAccepts(f.data)
  /\ pc' = "failed"
  /\ UNCHANGED <<files, blog, slots, builtParams, pages, index, record, verdict,
               response, previous>>

\* (variant: the whole id is routed)
MapPostsWholeId(allPosts) ==
  [i \in 1..Len(allPosts) |->
     [st |-> "pending", post |-> allPosts[i], id |-> allPosts[i].id,
      value |-> NotYet]]

\* getStaticPaths filters the collection and maps the async function over
\* it: each call runs up to its await of render(post)
MapPosts(allPosts) ==
  [i \in 1..Len(allPosts) |->
     [st |-> "pending", post |-> allPosts[i], id |-> RoutedId(allPosts[i].id),
      value |-> NotYet]]

GetStaticPaths ==
  /\ pc = "loaded"
  /\ slots' = MapPosts(FilterPublished(blog.value))
  /\ pc' = "rendering"
  /\ UNCHANGED <<files, blog, builtParams, pages, index, record, verdict,
               response, previous>>

\* (variant: the mapped function pushes its unit onto a shared array, so the
\* units come in the order the conversions complete)
RenderResolvePushing(i) ==
  /\ pc = "rendering"
  /\ slots[i].st = "pending"
  /\ LET k == 1 + Cardinality({j \in DOMAIN slots : slots[j].st = "fulfilled"})
         unit == BuildUnit(slots[i].post, slots[i].id, Render(slots[i].post))
     IN slots' = [j \in DOMAIN slots |->
                   [slots[j] EXCEPT
                      !.st = IF j = i THEN "fulfilled" ELSE @,
                      !.value = IF j = k THEN unit ELSE @]]
  /\ UNCHANGED <<files, pc, blog, builtParams, pages, index, record, verdict,
                 response, previous>>

\* render(post) resolves and the async function returns its unit
RenderResolve(i) ==
  /\ pc = "rendering"
  /\ slots[i].st = "pending"
  /\ slots' = [slots EXCEPT ![i] =
                 [@ EXCEPT !.st = "fulfilled",
                           !.value = BuildUnit(slots[i].post, slots[i].id,
                                               Render(slots[i].post))]]
  /\ UNCHANGED <<files, pc, blog, builtParams, pages, index, record, verdict,
               response, previous>>

\* (variant: Promise.allSettled, the units of the fulfilled promises are
\* returned)
RenderRejectKeepingOthers(i) ==
  /\ pc = "rendering"
  /\ slots[i].st = "pending"
  /\ slots' = [slots EXCEPT ![i] = [@ EXCEPT !.st = "rejected"]]
  /\ LET ok == SelectSeq(slots, LAMBDA sl : sl.st = "fulfilled")
     IN /\ builtParams' = Some([k \in DOMAIN ok |-> ok[k].value])
        /\ pages' = [k \in DOMAIN ok |-> NotYet]
  /\ pc' = "generating"
  /\ UNCHANGED <<files, blog, index, record, verdict, response, previous>>

\* (variant: the rejection is swallowed and the promise never settles the
\* join)
RenderRejectSwallowed(i) ==
  /\ pc = "rendering"
  /\ slots[i].st = "pending"
  /\ slots' = [slots EXCEPT ![i] = [@ EXCEPT !.st = "rejected"]]
  /\ UNCHANGED <<files, pc, blog, builtParams, pages, index, record, verdict,
                 response, previous>>

\* render(post) rejects: Promise.all rejects and getStaticPaths throws
RenderReject(i) ==
  /\ pc = "rendering"
  /\ slots[i].st = "pending"
  /\ slots' = [slots EXCEPT ![i] = [@ EXCEPT !.st = "rejected"]]
  /\ pc' = "failed"
  /\ UNCHANGED <<files, blog, builtParams, pages, index, record, verdict,
               response, previous>>

\* (variant: Promise.race in place of Promise.all)
PromiseRaceFulfilled(s) == \E i \in DOMAIN s : s[i].st = "fulfilled"

\* Promise.all fulfils once every promise it was given has fulfilled
PromiseAllFulfilled(s) == \A i \in DOMAIN s : s[i].st = "fulfilled"

\* await Promise.all(...) resumes and getStaticPaths returns builtParams
ReturnBuiltParams ==
  /\ pc = "rendering"
  /\ PromiseAllFulfilled(slots)
  /\ builtParams' = Some([i \in DOMAIN slots |-> slots[i].value])
  /\ pages' = [i \in DOMAIN slots |-> NotYet]
  /\ pc' = "generating"
  /\ UNCHANGED <<files, blog, slots, index, record, verdict,
               response, previous>>

\* the page of one returned unit is rendered
RenderPage(i) ==
  /\ pc = "generating"
  /\ pages[i] = NotYet
  /\ pages' = [pages EXCEPT ![i] = Some(RenderUnit(builtParams.value[i]))]
  /\ UNCHANGED <<files, pc, blog, slots, builtParams, index, record, verdict,
               response, previous>>

\* (variant: blog.sort(...).filter(...), the collection itself is sorted)
RenderIndexSortingInPlace ==
  /\ pc = "generating"
  /\ index = NotYet
  /\ blog' = Some(SortPosts(blog.value))
  /\ index' = Some([allPosts |-> FilterPublished(SortPosts(blog.value)),
                    listing |-> IndexListing(blog.value)])
  /\ UNCHANGED <<files, pc, slots, builtParams, pages, record, verdict,
                 response, previous>>

\* the page /blog is rendered
RenderIndex ==
  /\ pc = "generating"
  /\ index = NotYet
  /\ index' = Some([allPosts |-> IndexPosts(blog.value),
                    listing |-> IndexListing(blog.value)])
  /\ UNCHANGED <<files, pc, blog, slots, builtParams, pages, record, verdict,
               response, previous>>

\* every page has been written
Finish ==
  /\ pc = "generating"
  /\ index # NotYet
  /\ \A i \in DOMAIN pages : pages[i] # NotYet
  /\ pc' = "done"
  /\ UNCHANGED <<files, blog, slots, builtParams, pages, index, record, verdict,
               response, previous>>

\* the identifiers a visitor may ask for below /blog/
RequestIds == Paths \cup {RoutedId(id) : id \in Paths} \cup {Str(<<"zz">>)}

\* the built site answers a request for /blog/<rid>: a document written for
\* that route if there is one, not found otherwise
Request(rid) ==
  /\ pc = "done"
  /\ \/ \E i \in DOMAIN pages :
          /\ pages[i].value.route = rid
          /\ response' = [request |-> rid, status |-> "ok",
                          doc |-> pages[i].value.doc]
     \/ /\ \A i \in DOMAIN pages : pages[i].value.route # rid
        /\ response' = [request |-> rid, status |-> "not found"]
  /\ UNCHANGED <<files, pc, blog, slots, builtParams, pages, index, record,
                 verdict, previous>>

Next ==
  \/ Load
  \/ LoadFail
  \/ GetStaticPaths
  \/ \E i \in DOMAIN slots : RenderResolve(i)
  \/ \E i \in DOMAIN slots : RenderReject(i)
  \/ ReturnBuiltParams
  \/ \E i \in DOMAIN pages : RenderPage(i)
  \/ RenderIndex
  \/ Finish
  \/ \E rid \in RequestIds : Request(rid)

Spec == Init /\ [][Next]_vars

\* every step of a running build is eventually taken: the event loop runs
\* each settled promise's continuation and the renderer every page
Fairness == WF_vars(Next)

\* ------------------------------------------------------- a second build
\* content roots of at most two files, for the runs that are followed to
\* their end or repeated
SmallContentRoots ==
  UNION {{{File(id, a[id]) : id \in P} : a \in [P -> FrontMatters]} :
           P \in SUBSET {Str(<<"a">>), Str(<<"b">>)}}

InitSmall ==
  /\ files \in SmallContentRoots
  /\ pc = "start"
  /\ blog = NotYet
  /\ slots = <<>>
  /\ builtParams = NotYet
  /\ pages = <<>>
  /\ index = NotYet
  /\ record = NotYet
  /\ verdict = NotYet
  /\ response = NotYet
  /\ previous = NotYet

\* the build is started again on the unchanged files; what the one before
\* it produced is kept aside
Rebuild ==
  /\ pc = "done"
  /\ previous = NotYet
  /\ previous' = Some([units |-> builtParams.value,
                       listing |-> index.value.listing,
                       documents |-> {pages[i].value : i \in DOMAIN pages}])
  /\ pc' = "start"
  /\ blog' = NotYet
  /\ slots' = <<>>
  /\ builtParams' = NotYet
  /\ pages' = <<>>
  /\ index' = NotYet
  /\ response' = NotYet
  /\ UNCHANGED <<files, record, verdict>>

NextTwice == Next \/ Rebuild

SpecTwice == InitSmall /\ [][NextTwice]_vars

\* one build of a small content root under fair scheduling
FairSpec == InitSmall /\ [][Next]_vars /\ Fairness

\* ------------------------------------------------- the schema on its own
RawStrings == {Undefined, Num(1), Str(<<>>), Str(<<"T">>)}

RawRecords ==
  {FrontMatter(title, published, description, author, tags, ogImage) :
     title \in RawStrings, description \in RawStrings, author \in RawStrings,
     published \in PublishedValues \cup {Str(<<"2024">>)},
     tags \in {Undefined, Str(<<"x">>), Arr(<<>>), Arr(<<Str(<<"x">>)>>),
               Arr(<<Num(1)>>)},
     ogImage \in {Undefined, Str(<<>>), Str(<<"custom.png">>), Num(1)}}

InitSchema ==
  /\ record \in RawRecords
  /\ verdict = NotYet
  /\ files = {}
  /\ pc = "schema"
  /\ blog = NotYet
  /\ slots = <<>>
  /\ builtParams = NotYet
  /\ pages = <<>>
  /\ index = NotYet
  /\ response = NotYet
  /\ previous = NotYet

\* the schema parses the record: the set of fields it reports
Validate ==
  /\ pc = "schema"
  /\ verdict = NotYet
  /\ verdict' = Some(SchemaIssues(record))
  /\ UNCHANGED <<files, pc, blog, slots, builtParams, pages, index, record,
               response, previous>>

NextSchema == Validate

SpecSchema == InitSchema /\ [][NextSchema]_vars

\* =================================================================== claims
\* a occurs in b as a contiguous run of tokens
Contains(b, a) ==
  \E i \in 0..(Len(b) - Len(a)) : \A j \in 1..Len(a) : b[i + j] = a[j]

\* the entries of the collection that carry a `published` value
IsPublished(e) == e.data.published # Undefined

Entries == IF blog.t = "some" THEN {blog.value[i] : i \in DOMAIN blog.value} ELSE {}

PublishedSet == {e \in Entries : IsPublished(e)}

\* the tokens behind the last "/" of a token sequence
LastSegment(s) ==
  LET cuts == {i \in 1..Len(s) : s[i] = "/"}
      last == IF cuts = {} THEN 0 ELSE CHOOSE i \in cuts : \A j \in cuts : j <= i
  IN SubSeq(s, last + 1, Len(s))

Returned == builtParams.t = "some"

Units == builtParams.value

\* the positions of the returned units built from entry e
UnitsOf(e) == {j \in DOMAIN Units : Units[j].props.id = e.id}

\* C1: getStaticPaths returns exactly one unit for every entry that has a
\* `published` value and none for an entry without one; the number of units
\* is the number of published entries.
C1_OneUnitPerPublishedEntry ==
  Returned =>
    /\ \A e \in Entries :
         Cardinality(UnitsOf(e)) = IF IsPublished(e) THEN 1 ELSE 0
    /\ Len(Units) = Cardinality(PublishedSet)

\* getStaticPaths has returned for a collection that holds a draft next to
\* an entry published at the epoch
C1_Witness ==
  /\ Returned
  /\ \E e \in Entries : ~IsPublished(e)
  /\ \E e \in Entries : e.data.published = DateV(0) /\ UnitsOf(e) # {}

\* C2: whatever the order in which the conversions complete, a result of
\* getStaticPaths is visible only when every qualifying entry's conversion
\* has completed: every unit of it, and every page rendered from it, holds
\* the rendered content of its entry.
C2_NoUnitBeforeEveryConversion ==
  Returned =>
    /\ Len(Units) = Len(slots)
    /\ \A i \in DOMAIN slots :
         /\ slots[i].st = "fulfilled"
         /\ Units[i] = slots[i].value
         /\ "Content" \in DOMAIN Units[i].props
         /\ Units[i].props.Content = [component |-> <<"html">> \o slots[i].post.body]
    /\ \A i \in DOMAIN pages :
         pages[i].t = "some" =>
           pages[i].value.doc.body = [component |-> <<"html">> \o slots[i].post.body]

\* a result of three units is visible
C2_Witness ==
  /\ Returned
  /\ Len(Units) = 3
  /\ \E i \in DOMAIN pages : pages[i].t = "some"

\* the entry a unit was built from
EntryOfUnit(u) == CHOOSE e \in Entries : e.id = u.props.id

MetadataFields == {"title", "description", "author", "tags", "published", "ogImage"}

\* C3: every returned unit carries the routed identifier, every metadata
\* field of its entry with the entry's value, and the rendered content.
C3_UnitCarriesAllMetadata ==
  Returned =>
    \A j \in DOMAIN Units :
      /\ Units[j].params.id = Str(LastSegment(Units[j].props.id.v))
      /\ \A f \in MetadataFields :
           Prop(Units[j].props, f) = EntryOfUnit(Units[j]).data[f]
      /\ "Content" \in DOMAIN Units[j].props

\* the page rendered for the i-th returned unit, and the entry it is for
Rendered(i) == pages[i].t = "some"

Doc(i) == pages[i].value.doc

EntryOfPage(i) == EntryOfUnit(Units[i])

\* C4: the description meta tag of the document rendered for an entry holds
\* the entry's `description`.
C4_DescriptionReachesMetaTag ==
  \A i \in DOMAIN pages :
    Rendered(i) =>
      /\ Doc(i).ogDescription.t = "string"
      /\ Doc(i).ogDescription.v = EntryOfPage(i).data.description.v

\* C5: the author meta tag of the document rendered for an entry holds the
\* entry's `author`, whatever author the schema accepted.
C5_AuthorReachesMetaTag ==
  \A i \in DOMAIN pages :
    Rendered(i) => Doc(i).author = EntryOfPage(i).data.author

\* C6: the og:image tag of the document rendered for an entry contains the
\* entry's `ogImage` when it has one and og-image.png when it has none.
C6_OgImageOrFallback ==
  \A i \in DOMAIN pages :
    Rendered(i) =>
      /\ Doc(i).ogImage.t = "string"
      /\ IF EntryOfPage(i).data.ogImage # Undefined
         THEN Contains(Doc(i).ogImage.v, EntryOfPage(i).data.ogImage.v)
         ELSE Contains(Doc(i).ogImage.v, <<"og-image.png">>)

\* a page was rendered for an entry with `ogImage: custom.png` and one for
\* an entry without `ogImage`
C6_Witness ==
  /\ \E i \in DOMAIN pages :
       /\ Rendered(i)
       /\ EntryOfPage(i).data.ogImage = Str(<<"custom.png">>)
       /\ Contains(Doc(i).ogImage.v, <<"custom.png">>)
  /\ \E i \in DOMAIN pages :
       /\ Rendered(i)
       /\ EntryOfPage(i).data.ogImage = Undefined

IndexRendered == index.t = "some"

AllPosts == index.value.allPosts

Listing == index.value.listing

\* C7: the index lists the published entries by `published`, latest first:
\* no link stands before a link of a later date, and the listed entries are
\* the published entries, each once.
C7_IndexSortedDescending ==
  IndexRendered =>
    /\ \A i \in 1..(Len(AllPosts) - 1) :
         AllPosts[i].data.published.ms >= AllPosts[i + 1].data.published.ms
    /\ {AllPosts[i] : i \in DOMAIN AllPosts} = PublishedSet
    /\ Len(AllPosts) = Cardinality(PublishedSet)
    /\ Len(Listing) = Len(AllPosts)

\* the collection was enumerated with dates 0, 2, 1 and the index lists
\* them 2, 1, 0
C7_Witness ==
  /\ IndexRendered
  /\ Len(blog.value) = 3
  /\ blog.value[1].data.published = DateV(0)
  /\ blog.value[2].data.published = DateV(2)
  /\ blog.value[3].data.published = DateV(1)
  /\ AllPosts = <<blog.value[2], blog.value[3], blog.value[1]>>

\* C8: the listing has one link for each published entry and none for a
\* draft; a link is labelled with the entry's title and points to /blog/
\* followed by the identifier the entry's page is routed under.
C8_OneLinkPerPublishedEntry ==
  IndexRendered =>
    /\ Len(Listing) = Cardinality(PublishedSet)
    /\ \A e \in Entries :
         Cardinality({i \in DOMAIN Listing : AllPosts[i] = e})
           = IF IsPublished(e) THEN 1 ELSE 0
    /\ \A i \in DOMAIN Listing :
         /\ Listing[i].label = AllPosts[i].data.title
         /\ \E j \in DOMAIN Units :
              /\ Units[j].props.id = AllPosts[i].id
              /\ Listing[i].href = <<"/blog/">> \o Units[j].params.id.v
         /\ Listing[i].href = <<"/blog/">> \o LastSegment(AllPosts[i].id.v)

\* the index links an entry loaded from a subdirectory and the collection
\* holds a draft
C8_Witness ==
  /\ IndexRendered
  /\ \E i \in DOMAIN Listing : AllPosts[i].id = Str(<<"d", "/", "a">>)
  /\ \E e \in Entries : ~IsPublished(e)

Validated == verdict.t = "some"

RequiredFields == {"title", "description", "author", "tags"}

TextFields == {"title", "description", "author"}

\* every field of the record has the type the front-matter is documented
\* to have, the two optional ones being allowed to be absent
WellTyped(r) ==
  /\ \A f \in TextFields : r[f].t = "string"
  /\ r.tags.t = "array"
  /\ \A i \in 1..Len(r.tags.items) : r.tags.items[i].t = "string"
  /\ r.published.t \in {"undefined", "date"}
  /\ r.ogImage.t \in {"undefined", "string"}

\* C9: the schema accepts every record whose four required fields are
\* present and correctly typed and whose `published` and `ogImage` are
\* absent or correctly typed; it reports every required field that is
\* missing.
C9_SchemaAcceptsWellTyped ==
  Validated =>
    /\ WellTyped(record) => verdict.value = {}
    /\ \A f \in RequiredFields : record[f] = Undefined => f \in verdict.value

\* a record without `published` and `ogImage` and with no tags was accepted
C9_Witness ==
  /\ Validated
  /\ record.published = Undefined
  /\ record.ogImage = Undefined
  /\ record.tags = Arr(<<>>)
  /\ record.title = Str(<<"T">>)
  /\ verdict.value = {}

NoOutput ==
  /\ builtParams = NotYet
  /\ pages = <<>>
  /\ index = NotYet
  /\ response = NotYet

\* C11: when the front-matter of one file violates the schema the build
\* fails without any output document, whatever the other files are; the
\* invalid entry is never skipped to render the rest.
C11_InvalidFileFailsWholeBuild ==
  (\E f \in files : ~WellTyped(f.data)) =>
    /\ pc \in {"start", "failed"}
    /\ blog = NotYet
    /\ NoOutput

\* the build failed on a root that holds an invalid file next to a valid,
\* published one
C11_Witness ==
  /\ pc = "failed"
  /\ \E f \in files : ~WellTyped(f.data)
  /\ \E f \in files : WellTyped(f.data) /\ f.data.published # Undefined
  /\ NoOutput

\* the conversion of some qualifying entry has failed
AnyRejected == \E i \in DOMAIN slots : slots[i].st = "rejected"

\* C12: when the conversion of one qualifying entry fails, getStaticPaths
\* fails as a whole: no unit is returned, not even for the entries whose
\* conversion had completed, and nothing is attempted again afterwards.
C12_RenderFailureFailsAll ==
  /\ [](AnyRejected => pc = "failed" /\ NoOutput)
  /\ [][AnyRejected => UNCHANGED <<pc, slots, builtParams, pages, index>>]_vars

\* a conversion failed after another one had completed
C12_Witness ==
  /\ AnyRejected
  /\ \E i \in DOMAIN slots : slots[i].st = "fulfilled"
  /\ pc = "failed"
  /\ NoOutput

\* C13: when no loaded entry has a `published` value (an empty content root
\* included) getStaticPaths returns no unit and the index is rendered with
\* no item; neither step fails.
C13_NoPublishedEntryIsNotAnError ==
  (blog.t = "some" /\ PublishedSet = {}) =>
    /\ pc # "failed"
    /\ slots = <<>>
    /\ pc = "rendering" => ENABLED ReturnBuiltParams
    /\ Returned => Units = <<>> /\ pages = <<>>
    /\ (pc = "generating" /\ ~IndexRendered) => ENABLED RenderIndex
    /\ IndexRendered => Listing = <<>> /\ AllPosts = <<>>

\* the build of a root that holds drafts only is done, with no unit and an
\* empty listing
C13_Witness ==
  /\ pc = "done"
  /\ Entries # {}
  /\ PublishedSet = {}
  /\ Units = <<>>
  /\ Listing = <<>>

\* C14: the routed identifiers of the units of two distinct published
\* entries differ, also when the two files have the same name in different
\* directories.
C14_RoutedIdentifierUnique ==
  Returned =>
    \A i, j \in DOMAIN Units :
      Units[i].props.id # Units[j].props.id
        => Units[i].params.id # Units[j].params.id

\* C15: a second build of the same files produces what the first one did,
\* the same set of units and the same listing in the same order, whatever
\* order the loader enumerates the files in and whatever order the
\* conversions complete in, equal `published` dates included.
C15_SecondBuildSameOutput ==
  (pc = "done" /\ previous.t = "some") =>
    /\ {Units[i] : i \in DOMAIN Units}
         = {previous.value.units[i] : i \in DOMAIN previous.value.units}
    /\ Listing = previous.value.listing

Answered == "request" \in DOMAIN response

\* C16: after a successful build a request for an identifier is served a
\* document exactly when a published entry is routed under it; a request
\* for the identifier of a draft is answered not found; not found is never
\* an outcome of the build itself.
C16_ServedIffPublishedEntry ==
  Answered =>
    /\ pc = "done"
    /\ response.status = "ok"
         <=> \E e \in PublishedSet : Str(LastSegment(e.id.v)) = response.request
    /\ \A e \in Entries :
         (~IsPublished(e) /\ e.id = response.request)
           => response.status = "not found"

\* C17: the document routed under a published entry's identifier has that
\* entry's title as document title and og:title and that entry's rendered
\* content as body, and the index has a link labelled with the title.
C17_RoutedDocumentIsTheEntrys ==
  \A e \in PublishedSet :
    /\ (Answered /\ response.status = "ok"
          /\ response.request = Str(LastSegment(e.id.v)))
         => /\ response.doc.title = e.data.title
            /\ response.doc.ogTitle = e.data.title
            /\ response.doc.body = [component |-> <<"html">> \o e.body]
    /\ IndexRendered => \E i \in DOMAIN Listing : Listing[i].label = e.data.title

\* every qualifying entry has been processed to a complete unit and page
AllProcessed ==
  /\ Returned
  /\ Len(Units) = Cardinality(PublishedSet)
  /\ \A i \in DOMAIN slots : slots[i].st = "fulfilled" /\ Units[i] = slots[i].value
  /\ \A i \in DOMAIN pages : Rendered(i)
  /\ IndexRendered

\* C18: a build that has started is not cancelled: when every dispatched
\* conversion eventually settles it ends done, with every qualifying entry
\* processed, or failed, and stays so; it does not stop in between.
C18_BuildEndsDoneOrFailed ==
  /\ <>(pc \in {"done", "failed"})
  /\ [](pc = "done" => AllProcessed)
  /\ [](pc = "failed" => NoOutput)
  /\ [][(pc = "done" \/ pc = "failed") => UNCHANGED pc]_vars

\* a build of two qualifying entries is done
C18_Witness ==
  /\ pc = "done"
  /\ Cardinality(PublishedSet) = 2
  /\ AllProcessed

\* the published entries in the order getCollection delivered them
PublishedSeq == SelectSeq(blog.value, IsPublished)

\* C19: the units do not depend on the order in which the conversions
\* complete: for the loaded sequence of entries the result is always the
\* same sequence, its i-th unit made from the i-th published entry alone,
\* with that entry's rendered content.
C19_UnitsIndependentOfCompletionOrder ==
  Returned =>
    /\ Len(Units) = Len(PublishedSeq)
    /\ \A i \in DOMAIN Units :
         Units[i] =
           [params |-> [id |-> Str(LastSegment(PublishedSeq[i].id.v))],
            props |-> [id |-> PublishedSeq[i].id,
                       title |-> PublishedSeq[i].data.title,
                       published |-> PublishedSeq[i].data.published,
                       ogImage |-> PublishedSeq[i].data.ogImage,
                       Content |-> [component |-> <<"html">> \o PublishedSeq[i].body]]]

\* three conversions ran and their units were returned
C19_Witness ==
  /\ Returned
  /\ Len(PublishedSeq) = 3
  /\ \A i \in DOMAIN Units : Units[i].props.id = PublishedSeq[i].id

\* where the links of the index point, and where the generated pages are
LinkTargets == {Listing[i].href : i \in DOMAIN Listing}

PageTargets == {<<"/blog/">> \o Units[j].params.id.v : j \in DOMAIN Units}

\* C20: the index and the route generator agree: the link targets of the
\* index are the routes getStaticPaths emitted for the same collection, so
\* every link resolves to a generated page and every page is linked.
C20_IndexLinksAreTheRoutes ==
  (IndexRendered /\ Returned) => LinkTargets = PageTargets

\* the index links two pages, one of an entry from a subdirectory, and the
\* collection holds a draft that neither side shows
C20_Witness ==
  /\ IndexRendered
  /\ Returned
  /\ Len(Units) = 2
  /\ \E j \in DOMAIN Units : Units[j].props.id = Str(<<"d", "/", "a">>)
  /\ \E e \in Entries : ~IsPublished(e)
  /\ Cardinality(LinkTargets) = 2

\* C21: the identifier in the og:url of a rendered document is the routed
\* identifier the document is served under, also for an entry loaded from
\* a subdirectory.
C21_OgUrlIsTheRoute ==
  \A i \in DOMAIN pages :
    Rendered(i) =>
      Doc(i).ogUrl
        = Str(<<"https://www.nickcosmo.com/blog/">> \o pages[i].value.route.v)

\* the entries as the loader constructed them from the files
LoadedFrom(fs) == {File(f.id, f.data) : f \in fs}

\* C22: loaded entries are immutable: no step of getStaticPaths or of the
\* index changes the collection, its order or an entry's identifier,
\* metadata or body; the posts they work on, the sorted ones included, are
\* the loaded entries as they were constructed.
C22_LoadedEntriesImmutable ==
  /\ [][blog.t = "some" => UNCHANGED <<blog, files>>]_vars
  /\ [](Entries \subseteq LoadedFrom(files))
  /\ [](\A i \in DOMAIN slots : slots[i].post \in Entries)
  /\ [](IndexRendered => \A i \in DOMAIN AllPosts : AllPosts[i] \in Entries)

\* the units were returned and the index sorted its posts into an order
\* the collection does not have; the collection is as it was loaded
C22_Witness ==
  /\ IndexRendered
  /\ Returned
  /\ Len(blog.value) = 3
  /\ blog.value[1].data.published = DateV(0)
  /\ blog.value[2].data.published = Undefined
  /\ blog.value[3].data.published = DateV(2)
  /\ AllPosts = <<blog.value[3], blog.value[1]>>

====
